---- MODULE Spec2Model ----
(***************************************************************************)
(* A model of two JSON-RPC v0.2 method handlers of the pathfinder node:    *)
(*                                                                         *)
(*   get_class_at             crates/rpc/src/v02/method/get_class_at.rs    *)
(*   add_declare_transaction  crates/pathfinder/src/rpc/v02/method/        *)
(*                            add_declare_transaction.rs                   *)
(*                                                                         *)
(* get_class_at runs as an async task that reads the pending overlay and   *)
(* then hands a closure to a blocking worker; the closure opens one        *)
(* storage transaction and performs its reads through it.  A storage       *)
(* writer and the sync process that replaces the pending overlay run       *)
(* concurrently with the request.  add_declare_transaction converts the    *)
(* contract class and forwards it to the sequencer gateway.                *)
(*                                                                         *)
(* The two handlers share no state, so a behaviour follows one request of  *)
(* one method (serving); the writer is explored only next to get_class_at, *)
(* the handler that reads what the writer changes.                         *)
(*                                                                         *)
(* Spec is that system.  Three further specifications follow get_class_at  *)
(* in one environment each: SpecRepeat (the identical request repeated     *)
(* over a storage and an overlay that are no longer written), SpecCancel   *)
(* (the caller may abandon the request; the worker's steps are weakly      *)
(* fair) and SpecPromotion (the sync process promotes the pending block    *)
(* while a Pending request is served).                                     *)
(***************************************************************************)
EXTENDS Integers, Sequences, FiniteSets, TLC

(***************************************************************************)
(* Bounds of the model.                                                    *)
(***************************************************************************)
\* Most blocks committed storage ever holds; block numbers are 0..MaxBlocks-1,
\* so the number MaxBlocks is always beyond the chain head.
MaxBlocks == 2
\* Most steps the storage writer and the sync process take in one behaviour.
MaxWrites == 2
\* Most (address, class hash) pairs in one pending state update.
MaxPairs == 2

Addresses == {1, 2}
ClassHashes == {1, 2}

(***************************************************************************)
(* Values.                                                                 *)
(***************************************************************************)
None == [some |-> FALSE]
Some(x) == [some |-> TRUE, value |-> x]

Ok(v) == [ok |-> TRUE, value |-> v]
\* A domain error of the method's declared subset.
Err(k) == [ok |-> FALSE, kind |-> k]
\* The catch-all Internal(anyhow::Error); context is the outermost context
\* attached to the cause.
Internal(context) == [ok |-> FALSE, kind |-> "Internal", context |-> context]

\* pathfinder_common::BlockId, the identifier of the RPC request.
Latest == [kind |-> "Latest", value |-> 0]
Pending == [kind |-> "Pending", value |-> 0]
Hash(h) == [kind |-> "Hash", value |-> h]
Number(n) == [kind |-> "Number", value |-> n]

\* The hash of the block with number n.
BlockHashOf(n) == 100 + n

\* The block ids a request can carry: those of every block that can exist and
\* one number and one hash that never exist.
BlockIds ==
    {Latest, Pending}
        \cup {Number(n) : n \in 0..MaxBlocks}
        \cup {Hash(BlockHashOf(n)) : n \in 0..MaxBlocks}

\* pathfinder_storage::BlockId, the reference the storage layer takes.
StorageLatest == [ref |-> "Latest", value |-> 0]
StorageHash(h) == [ref |-> "Hash", value |-> h]
StorageNumber(n) == [ref |-> "Number", value |-> n]

GetClassAtInput == [block_id : BlockIds, contract_address : Addresses]

(***************************************************************************)
(* Committed storage (pathfinder_storage), as the handler uses it: a chain *)
(* of blocks 0..head-1, for every address the block that deployed it and   *)
(* its class hash, and for every class hash the stored definition bytes.   *)
(***************************************************************************)
NotDeployed == [some |-> FALSE]
Deployed(n, h) == [some |-> TRUE, block |-> n, class_hash |-> h]

\* Definition bytes: a legacy (Cairo 0) class, a Sierra class, or bytes that
\* no class format accepts.  content stands for the class the bytes encode.
DefinitionBytes(f, h) == [format |-> f, content |-> h]
Formats == {"legacy", "sierra"}

EmptyStorage ==
    [head |-> 0,
     deployed |-> [a \in Addresses |-> NotDeployed],
     classes |-> [h \in ClassHashes |-> None]]

\* The number of the block a storage block id refers to, if the block exists.
BlockNumberOf(s, id) ==
    CASE id.ref = "Latest" -> IF s.head > 0 THEN Some(s.head - 1) ELSE None
      [] id.ref = "Number" -> IF id.value < s.head THEN Some(id.value) ELSE None
      [] id.ref = "Hash" ->
            IF \E n \in 0..(s.head - 1) : BlockHashOf(n) = id.value
            THEN Some(CHOOSE n \in 0..(s.head - 1) : BlockHashOf(n) = id.value)
            ELSE None

\* Transaction::block_exists
block_exists(s, id) == BlockNumberOf(s, id).some

\* Transaction::contract_class_hash: the class hash of the address as of the
\* block, none when the block is missing or precedes the deployment.
contract_class_hash(s, id, address) ==
    LET n == BlockNumberOf(s, id)
        d == s.deployed[address]
    IN  IF n.some /\ d.some /\ d.block <= n.value THEN Some(d.class_hash) ELSE None

\* Transaction::class_definition
class_definition(s, h) == s.classes[h]

\* ContractClass::from_definition_bytes: both class generations parse, any
\* other bytes are an error.
from_definition_bytes(bytes) ==
    IF bytes.format \in Formats
    THEN Ok([generation |-> bytes.format, class |-> bytes.content])
    ELSE Internal("Parsing class definition")

(***************************************************************************)
(* The pending overlay: context.pending_data is an optional provider whose *)
(* state_update() is an optional snapshot; deployed_contracts is the       *)
(* ordered sequence of (address, class_hash) pairs of its state diff.      *)
(***************************************************************************)
DeployedContract(a, h) == [address |-> a, class_hash |-> h]
DeployedContracts == {DeployedContract(a, h) : a \in Addresses, h \in ClassHashes}

RECURSIVE SeqsUpTo(_, _)
SeqsUpTo(S, n) ==
    IF n = 0 THEN {<<>>}
    ELSE LET shorter == SeqsUpTo(S, n - 1)
         IN  shorter \cup {Append(q, x) : q \in shorter, x \in S}

(***************************************************************************)
(* get_class_at: the parts of the handler that are pure.                   *)
(***************************************************************************)
\* TryFrom<BlockId> for pathfinder_storage::BlockId: only Pending fails.
try_into(id) ==
    CASE id.kind = "Latest" -> Ok(StorageLatest)
      [] id.kind = "Hash" -> Ok(StorageHash(id.value))
      [] id.kind = "Number" -> Ok(StorageNumber(id.value))
      [] id.kind = "Pending" -> [ok |-> FALSE, kind |-> "Pending is invalid within the storage context"]

\* Variant: without the Pending arm every id goes through the conversion.
MapBlockIdConvertAll(id) == try_into(id)

\* Variant: Pending is mapped to the first block.
MapBlockIdPendingGenesis(id) ==
    IF id = Pending THEN Ok(StorageNumber(0)) ELSE try_into(id)

\* Variant: every block id is mapped to Latest.
MapBlockIdLatest(id) == Ok(StorageLatest)

\* "Map block id to the storage variant": Pending becomes Latest, any other
\* id is converted; the result of the conversion is what expect() unwraps.
MapBlockId(id) ==
    IF id = Pending THEN Ok(StorageLatest) ELSE try_into(id)

\* Variant: the overlay is read whenever the mapped id is Latest, the
\* distinction between Pending and Latest being lost by the mapping.
IsPendingRequestMapped(input_block_id, mapped) == mapped = StorageLatest

\* The condition under which the pending overlay is read: the request's own
\* block id, not the mapped one.
IsPendingRequest(input_block_id, mapped) == input_block_id = Pending

\* Variant: the last pair with the address wins.
find_map_last(q, address) ==
    LET matches == {i \in 1..Len(q) : q[i].address = address}
    IN  IF matches = {} THEN None
        ELSE Some(q[CHOOSE i \in matches : \A j \in matches : i >= j].class_hash)

\* Iterator::find_map over deployed_contracts: the class hash of the first
\* pair with the address.
find_map(q, address) ==
    LET matches == {i \in 1..Len(q) : q[i].address = address}
    IN  IF matches = {} THEN None
        ELSE Some(q[CHOOSE i \in matches : \A j \in matches : i <= j].class_hash)

\* Variant: reading the state update takes it out of the pending data.
AfterStateUpdateTaken(pending) == IF pending.some THEN Some(None) ELSE pending

\* pending?.state_update().await hands out the state update and leaves the
\* shared pending data as it is.
AfterStateUpdateRead(pending) == pending

\* get_pending_class_hash(pending, address)
get_pending_class_hash(pending, address) ==
    IF ~pending.some THEN None
    ELSE LET state_update == pending.value
         IN  IF ~state_update.some THEN None
             ELSE find_map(state_update.value.deployed_contracts, address)

\* Variant: the definition is fetched outside the transaction, from the
\* storage as it is when the fetch runs.
ClassDefinitionReadLive(t, live, h) == class_definition(live, h)

\* The three reads of the closure all go through its one transaction tx;
\* live is the storage as it is when the read runs.
BlockExistsRead(t, live, id) == block_exists(t.snap, id)
ClassHashRead(t, live, id, address) == contract_class_hash(t.snap, id, address)
ClassDefinitionRead(t, live, h) == class_definition(t.snap, h)

\* Variant: a class hash from the overlay makes the closure skip the check
\* of the block.
AfterTransactionOverlaySkips(pending_hash) ==
    IF pending_hash.some THEN "class_hash" ELSE "block_exists"

\* The statement after the transaction is opened is the check of the block,
\* whatever pending_class_hash holds.
AfterTransaction(pending_hash) == "block_exists"

\* Variant: the existence of the block is not checked.
BlockCheckSkipped(exists) == None

\* if !tx.block_exists(block_id)? { return Err(BlockNotFound) }: the early
\* return, if any.
BlockCheck(exists) == IF ~exists THEN Some(Err("BlockNotFound")) ELSE None

\* Variant: the closure reads the overlay itself, when it comes to the match.
PendingClassHashReadLate(captured, live, address) ==
    get_pending_class_hash(live, address)

\* The closure is a move closure: the pending_class_hash it matches on is
\* the value read before it was spawned, whatever the overlay (live) holds
\* when the match runs.
CapturedPendingClassHash(captured, live, address) == captured

\* Variant: committed storage is looked up first and the overlay's hash is
\* only the fallback.
SelectClassHashCommittedFirst(pending_hash, committed) ==
    [lookup |-> TRUE,
     result |-> IF committed.some THEN Ok(committed.value)
                ELSE IF pending_hash.some THEN Ok(pending_hash.value)
                ELSE Err("ContractNotFound")]

\* let class_hash = match pending_class_hash { .. }: the overlay's hash when
\* there is one, and only otherwise the lookup in committed storage.  lookup
\* says whether contract_class_hash was called.
SelectClassHash(pending_hash, committed) ==
    IF pending_hash.some
    THEN [lookup |-> FALSE, result |-> Ok(pending_hash.value)]
    ELSE [lookup |-> TRUE,
          result |-> IF committed.some THEN Ok(committed.value)
                     ELSE Err("ContractNotFound")]

\* Variant: a missing definition is reported with the error kind of the
\* class-hash lookups of other methods.
DefinitionResultClassHashNotFound(fetched) ==
    IF fetched.some THEN Ok(fetched.value) ELSE Err("ClassHashNotFound")

\* Variant: a missing definition is reported as a missing contract.
DefinitionResultContractNotFound(fetched) ==
    IF fetched.some THEN Ok(fetched.value) ELSE Err("ContractNotFound")

\* .context("Class definition missing from database")? on the fetched option.
DefinitionResult(fetched) ==
    IF fetched.some THEN Ok(fetched.value)
    ELSE Internal("Class definition missing from database")

\* Variant: dropping the join handle aborts a closure that is still running.
DropJoinHandleAborts(worker_pc) ==
    IF worker_pc \in {"none", "returned", "panicked"} THEN worker_pc ELSE "panicked"

\* The join handle jh is dropped with the task; a closure handed to
\* spawn_blocking is detached by that, not stopped.
DropJoinHandle(worker_pc) == worker_pc

\* Variant: every error of the worker is wrapped, not only a JoinError.
JoinResultWrapped(panicked, returned) ==
    IF panicked \/ ~returned.ok THEN Internal("Reading class from database")
    ELSE returned

\* jh.await.context("Reading class from database")?: a JoinError (the worker
\* panicked or was cancelled) becomes Internal, a returned value is passed on.
JoinResult(panicked, returned) ==
    IF panicked THEN Internal("Reading class from database") ELSE returned

(***************************************************************************)
(* State.                                                                  *)
(***************************************************************************)
VARIABLES
    serving,            \* the method of the request this behaviour follows
    storage,            \* committed storage
    pending_data,       \* context.pending_data
    writes,             \* steps the writer and the sync process have taken
    tpc,                \* get_class_at: position of the async task
    input,              \* get_class_at: the request
    block_id,           \* get_class_at: the mapped storage block id
    pending_class_hash, \* get_class_at: the hash read from the overlay
    wpc,                \* get_class_at: position of the blocking worker
    tx,                 \* get_class_at: the worker's storage transaction
    class_hash,         \* get_class_at: the worker's class_hash
    definition,         \* get_class_at: the worker's definition bytes
    returned,           \* get_class_at: the value the closure returned
    result,             \* get_class_at: the value the handler returned
    fault,              \* history: the storage call that failed, or "panic"
    overlay_reads,      \* history: calls of get_pending_class_hash
    lookups,            \* history: calls of tx.contract_class_hash
    dpc,                \* add_declare_transaction: position of the task
    declare_input,      \* add_declare_transaction: the request
    contract_definition, \* add_declare_transaction: the converted class
    sequencer_calls,    \* history: the calls the gateway client received
    sequencer_reply,    \* history: what the gateway client returned
    declare_result,     \* add_declare_transaction: the value returned
    previous,           \* history: result and fault of the preceding identical request
    uncovered,          \* history: addresses neither in the overlay nor deployed at
                        \* Latest at some instant of a promotion during the request
    mappings            \* history: per address, the class hashes the overlay or
                        \* Latest gave it at some instant of a promotion

envVars == <<storage, pending_data, writes>>
taskVars == <<tpc, input, block_id, pending_class_hash, result, overlay_reads>>
workerVars == <<wpc, tx, class_hash, definition, returned, fault, lookups>>
getClassAtVars == <<taskVars, workerVars>>
declareVars ==
    <<dpc, declare_input, contract_definition, sequencer_calls, sequencer_reply,
      declare_result>>
obsVars == <<previous, uncovered, mappings>>
vars == <<serving, envVars, getClassAtVars, declareVars, obsVars>>

NoTx == [open |-> FALSE]
OpenTx(s) == [open |-> TRUE, snap |-> s]

Methods == {"get_class_at", "add_declare_transaction"}

InitGetClassAt ==
    /\ tpc = "idle"
    /\ input = None
    /\ block_id = None
    /\ pending_class_hash = None
    /\ wpc = "none"
    /\ tx = NoTx
    /\ class_hash = None
    /\ definition = None
    /\ returned = None
    /\ result = None
    /\ fault = "none"
    /\ overlay_reads = 0
    /\ lookups = 0

InitObs ==
    /\ previous = None
    /\ uncovered = {}
    /\ mappings = [a \in Addresses |-> {}]

\* Storage starts empty; the node runs with or without a pending-data
\* provider, and a provider starts without a state update.
InitEnv ==
    /\ storage = EmptyStorage
    /\ pending_data \in {None, Some(None)}
    /\ writes = 0

(***************************************************************************)
(* The storage writer and the sync process.                                *)
(***************************************************************************)
WriterRuns ==
    /\ serving = "get_class_at"
    /\ tpc # "done"
    /\ writes < MaxWrites

\* A block is committed; it deploys at most one contract not deployed before.
CommitBlock ==
    /\ WriterRuns
    /\ storage.head < MaxBlocks
    /\ \/ storage' = [storage EXCEPT !.head = @ + 1]
       \/ \E a \in Addresses, h \in ClassHashes :
            /\ ~storage.deployed[a].some
            /\ storage' = [storage EXCEPT !.head = @ + 1,
                                          !.deployed[a] = Deployed(storage.head, h)]
    /\ writes' = writes + 1
    /\ UNCHANGED <<serving, obsVars, pending_data, getClassAtVars, declareVars>>

\* A reorg removes the head block and the deployments it made.
Reorg ==
    /\ WriterRuns
    /\ storage.head > 0
    /\ storage' =
            [storage EXCEPT
                !.head = @ - 1,
                !.deployed = [a \in Addresses |->
                    IF storage.deployed[a].some /\ storage.deployed[a].block = storage.head - 1
                    THEN NotDeployed ELSE storage.deployed[a]]]
    /\ writes' = writes + 1
    /\ UNCHANGED <<serving, obsVars, pending_data, getClassAtVars, declareVars>>

\* The definition of a class is stored: a parseable one of either
\* generation, or bytes that do not parse.
StoreClass ==
    /\ WriterRuns
    /\ \E h \in ClassHashes, f \in Formats \cup {"garbage"} :
            /\ ~storage.classes[h].some
            /\ storage' = [storage EXCEPT !.classes[h] = Some(DefinitionBytes(f, h))]
    /\ writes' = writes + 1
    /\ UNCHANGED <<serving, obsVars, pending_data, getClassAtVars, declareVars>>

\* The definition of a class is lost.
RemoveClass ==
    /\ WriterRuns
    /\ \E h \in ClassHashes :
            /\ storage.classes[h].some
            /\ storage' = [storage EXCEPT !.classes[h] = None]
    /\ writes' = writes + 1
    /\ UNCHANGED <<serving, obsVars, pending_data, getClassAtVars, declareVars>>

\* The sync process swaps in a new pending state update: none, the update of
\* a fresh pending block (at most one deployment so far), or the current
\* update grown by one deployment as the pending block fills.
NextStateUpdates(su) ==
    {None}
        \cup {Some([deployed_contracts |-> q]) : q \in SeqsUpTo(DeployedContracts, 1)}
        \cup IF su.some /\ Len(su.value.deployed_contracts) < MaxPairs
             THEN {Some([deployed_contracts |-> Append(su.value.deployed_contracts, d)]) :
                        d \in DeployedContracts}
             ELSE {}

SetPending ==
    /\ WriterRuns
    /\ pending_data.some
    /\ \E su \in NextStateUpdates(pending_data.value) :
            /\ su # pending_data.value
            /\ pending_data' = Some(su)
    /\ writes' = writes + 1
    /\ UNCHANGED <<serving, obsVars, storage, getClassAtVars, declareVars>>

\* The writer and the sync process at work before the request arrives.
QuietWriter ==
    /\ tpc = "idle"
    /\ \/ CommitBlock
       \/ Reorg
       \/ StoreClass
       \/ RemoveClass
       \/ SetPending

(***************************************************************************)
(* The sync process promoting the pending block while a request is served: *)
(* it commits the pending block to storage first and replaces the overlay  *)
(* only then.  The overlay and Latest are observed before and after each   *)
(* of its steps.                                                           *)
(***************************************************************************)
OverlayPairs(p) ==
    IF p.some /\ p.value.some THEN p.value.value.deployed_contracts ELSE <<>>

CoveredNow(s, p, a) ==
    \/ find_map(OverlayPairs(p), a).some
    \/ contract_class_hash(s, StorageLatest, a).some

MappedNow(s, p, a) ==
    {h \in ClassHashes :
        \/ find_map(OverlayPairs(p), a) = Some(h)
        \/ contract_class_hash(s, StorageLatest, a) = Some(h)}

Observe ==
    /\ uncovered' =
            uncovered
                \cup {a \in Addresses : ~CoveredNow(storage, pending_data, a)}
                \cup {a \in Addresses : ~CoveredNow(storage', pending_data', a)}
    /\ mappings' =
            [a \in Addresses |->
                mappings[a] \cup MappedNow(storage, pending_data, a)
                            \cup MappedNow(storage', pending_data', a)]

PromotionRuns ==
    /\ serving = "get_class_at"
    /\ tpc \notin {"idle", "done"}
    /\ writes < MaxWrites

\* The pending block is committed: a new block that deploys the contracts of
\* the overlay that are not deployed yet.
PromoteCommit ==
    /\ PromotionRuns
    /\ storage.head < MaxBlocks
    /\ storage' =
            [storage EXCEPT
                !.head = @ + 1,
                !.deployed =
                    [a \in Addresses |->
                        LET h == find_map(OverlayPairs(pending_data), a)
                        IN  IF ~storage.deployed[a].some /\ h.some
                            THEN Deployed(storage.head, h.value)
                            ELSE storage.deployed[a]]]
    /\ pending_data' = pending_data
    /\ writes' = writes + 1
    /\ Observe
    /\ UNCHANGED <<serving, previous, getClassAtVars, declareVars>>

\* The overlay is replaced by the state update of the next pending block,
\* once every deployment of the old one is committed.
PromoteReplace ==
    /\ PromotionRuns
    /\ pending_data.some
    /\ LET q == OverlayPairs(pending_data)
       IN  \A i \in 1..Len(q) : storage.deployed[q[i].address].some
    /\ \E su \in {None} \cup {Some([deployed_contracts |-> q]) :
                                    q \in SeqsUpTo(DeployedContracts, 1)} :
            /\ su # pending_data.value
            /\ pending_data' = Some(su)
    /\ storage' = storage
    /\ writes' = writes + 1
    /\ Observe
    /\ UNCHANGED <<serving, previous, getClassAtVars, declareVars>>

\* The pending block fills: its state update gets one more deployment.
GrowPending ==
    /\ PromotionRuns
    /\ pending_data.some /\ pending_data.value.some
    /\ Len(OverlayPairs(pending_data)) < MaxPairs
    /\ \E d \in DeployedContracts :
            pending_data' =
                Some(Some([deployed_contracts |-> Append(OverlayPairs(pending_data), d)]))
    /\ storage' = storage
    /\ writes' = writes + 1
    /\ Observe
    /\ UNCHANGED <<serving, previous, getClassAtVars, declareVars>>

(***************************************************************************)
(* get_class_at: the async task.                                           *)
(***************************************************************************)
\* The handler is entered and maps the block id to the storage variant.  A
\* failed conversion would panic in expect().
GetClassAt ==
    /\ serving = "get_class_at"
    /\ tpc = "idle"
    /\ \E i \in GetClassAtInput :
            LET mapped == MapBlockId(i.block_id)
            IN  /\ input' = Some(i)
                /\ block_id' = IF mapped.ok THEN Some(mapped.value) ELSE None
                /\ tpc' = IF mapped.ok THEN "pending_class_hash" ELSE "panicked"
    /\ UNCHANGED <<serving, obsVars, envVars, declareVars, pending_class_hash, result, overlay_reads, workerVars>>

\* let pending_class_hash = if input.block_id == BlockId::Pending { .. }
ReadPendingClassHash ==
    /\ tpc = "pending_class_hash"
    /\ IF IsPendingRequest(input.value.block_id, block_id.value)
       THEN /\ pending_class_hash' =
                    get_pending_class_hash(pending_data, input.value.contract_address)
            /\ pending_data' = AfterStateUpdateRead(pending_data)
            /\ overlay_reads' = overlay_reads + 1
       ELSE /\ pending_class_hash' = None
            /\ pending_data' = pending_data
            /\ overlay_reads' = overlay_reads
    /\ tpc' = "spawn_blocking"
    /\ UNCHANGED <<serving, obsVars, storage, writes, declareVars, input, block_id, result,
                   workerVars>>

\* tokio::task::spawn_blocking(move || ..): the closure is handed to the
\* blocking pool and the task awaits its join handle.
SpawnBlocking ==
    /\ tpc = "spawn_blocking"
    /\ tpc' = "join"
    /\ wpc' = "connection"
    /\ UNCHANGED <<serving, obsVars, envVars, declareVars, input, block_id, pending_class_hash, result,
                   overlay_reads, tx, class_hash, definition, returned, fault, lookups>>

\* jh.await.context("Reading class from database")?
Join ==
    /\ tpc = "join"
    /\ wpc \in {"returned", "panicked"}
    /\ result' = Some(JoinResult(wpc = "panicked", returned.value))
    /\ tpc' = "done"
    /\ UNCHANGED <<serving, obsVars, envVars, declareVars, input, block_id, pending_class_hash,
                   overlay_reads, workerVars>>

\* The caller disconnects or times out while the task is suspended at one of
\* its two await points: the read of the overlay (a Pending request) or the
\* join handle.  The task is dropped and never resumed.
Cancel ==
    /\ \/ tpc = "pending_class_hash" /\ input.value.block_id = Pending
       \/ tpc = "join"
    /\ tpc' = "cancelled"
    /\ wpc' = DropJoinHandle(wpc)
    /\ UNCHANGED <<serving, obsVars, envVars, declareVars, input, block_id,
                   pending_class_hash, result, overlay_reads, tx, class_hash, definition,
                   returned, fault, lookups>>

\* What is kept of an answered request: its result (of an Internal caused
\* by a failed storage call or a crash, the kind only), and whether a storage
\* call failed or the worker crashed.
Outcome(r, f) ==
    [result |-> IF f = "none" THEN r ELSE Err(r.kind),
     fault |-> IF f \in {"none", "panic"} THEN f ELSE "storage"]

\* The caller sends the identical request again after the answer: the
\* handler is entered anew with the same input.
Repeat ==
    /\ tpc = "done"
    /\ previous' = Some(Outcome(result.value, fault))
    /\ block_id' = Some(MapBlockId(input.value.block_id).value)
    /\ tpc' = "pending_class_hash"
    /\ pending_class_hash' = None
    /\ result' = None
    /\ overlay_reads' = 0
    /\ wpc' = "none"
    /\ tx' = NoTx
    /\ class_hash' = None
    /\ definition' = None
    /\ returned' = None
    /\ fault' = "none"
    /\ lookups' = 0
    /\ UNCHANGED <<serving, envVars, declareVars, input, uncovered, mappings>>

(***************************************************************************)
(* get_class_at: the closure run by the blocking worker.  Every storage    *)
(* call can fail; its error is returned through ? as Internal.             *)
(***************************************************************************)
\* The closure returns v; f names the storage call that failed, if one did.
Return(v, f) ==
    /\ wpc' = "returned"
    /\ returned' = Some(v)
    /\ fault' = f

\* context.storage.connection().context("Opening database connection")?
Connection ==
    /\ wpc = "connection"
    /\ \/ /\ wpc' = "transaction"
          /\ UNCHANGED <<returned, fault>>
       \/ Return(Internal("Opening database connection"), "connection")
    /\ UNCHANGED <<serving, obsVars, envVars, declareVars, taskVars, tx, class_hash, definition, lookups>>

\* db.transaction().context("Creating database transaction")?: the
\* transaction reads the storage as it is now.
Transaction ==
    /\ wpc = "transaction"
    /\ \/ /\ tx' = OpenTx(storage)
          /\ wpc' = AfterTransaction(pending_class_hash)
          /\ UNCHANGED <<returned, fault>>
       \/ /\ Return(Internal("Creating database transaction"), "transaction")
          /\ tx' = tx
    /\ UNCHANGED <<serving, obsVars, envVars, declareVars, taskVars, class_hash, definition, lookups>>

\* if !tx.block_exists(block_id)? { return Err(GetClassAtError::BlockNotFound); }
BlockExists ==
    /\ wpc = "block_exists"
    /\ \/ LET early == BlockCheck(BlockExistsRead(tx, storage, block_id.value))
          IN  IF early.some
              THEN Return(early.value, "none")
              ELSE /\ wpc' = "class_hash"
                   /\ UNCHANGED <<returned, fault>>
       \/ Return(Internal("storage error"), "block_exists")
    /\ UNCHANGED <<serving, obsVars, envVars, declareVars, taskVars, tx, class_hash, definition, lookups>>

\* let class_hash = match pending_class_hash { Some(..) => .., None => tx
\*     .contract_class_hash(..).context(..)?.ok_or(ContractNotFound)? };
ClassHash ==
    /\ wpc = "class_hash"
    /\ LET selected ==
                SelectClassHash(
                    CapturedPendingClassHash(pending_class_hash, pending_data,
                                             input.value.contract_address),
                    ClassHashRead(tx, storage, block_id.value, input.value.contract_address))
       IN  /\ lookups' = IF selected.lookup THEN lookups + 1 ELSE lookups
           /\ \/ IF selected.result.ok
                 THEN /\ class_hash' = Some(selected.result.value)
                      /\ wpc' = "class_definition"
                      /\ UNCHANGED <<returned, fault>>
                 ELSE /\ Return(selected.result, "none")
                      /\ class_hash' = class_hash
              \/ /\ selected.lookup
                 /\ Return(Internal("Querying contract's class hash"), "contract_class_hash")
                 /\ class_hash' = class_hash
    /\ UNCHANGED <<serving, obsVars, envVars, declareVars, taskVars, tx, definition>>

\* let definition = tx.class_definition(class_hash)
\*     .context("Fetching class definition")?
\*     .context("Class definition missing from database")?;
ClassDefinition ==
    /\ wpc = "class_definition"
    /\ \/ LET fetched == DefinitionResult(ClassDefinitionRead(tx, storage, class_hash.value))
          IN  IF fetched.ok
              THEN /\ definition' = Some(fetched.value)
                   /\ wpc' = "from_definition_bytes"
                   /\ UNCHANGED <<returned, fault>>
              ELSE /\ Return(fetched, "none")
                   /\ definition' = definition
       \/ /\ Return(Internal("Fetching class definition"), "class_definition")
          /\ definition' = definition
    /\ UNCHANGED <<serving, obsVars, envVars, declareVars, taskVars, tx, class_hash, lookups>>

\* let class = ContractClass::from_definition_bytes(&definition)
\*     .context("Parsing class definition")?; Ok(class)
FromDefinitionBytes ==
    /\ wpc = "from_definition_bytes"
    /\ Return(from_definition_bytes(definition.value), "none")
    /\ UNCHANGED <<serving, obsVars, envVars, declareVars, taskVars, tx, class_hash, definition, lookups>>

\* The closure panics, or the runtime shuts the worker down, before the
\* closure returns.
WorkerPanic ==
    /\ wpc \in {"connection", "transaction", "block_exists", "class_hash",
                 "class_definition", "from_definition_bytes"}
    /\ wpc' = "panicked"
    /\ fault' = "panic"
    /\ UNCHANGED <<serving, obsVars, envVars, declareVars, taskVars, tx, class_hash, definition, returned, lookups>>

(***************************************************************************)
(* add_declare_transaction.                                                *)
(***************************************************************************)
\* The contract class of the request.  program is the encoded program: a
\* valid one, an empty string, or one the gateway cannot decode.  abi is
\* well formed, or cannot be turned into the gateway's schema.
Programs == {"program", "", "not a program"}
ContractClasses == [program : Programs, abi : {"abi", "malformed"}]

BroadcastedDeclareTransactions ==
    [version : {0, 1},
     max_fee : {0, 1},
     signature : {<<>>, <<7>>},
     nonce : {0, 1},
     contract_class : ContractClasses,
     sender_address : Addresses]

\* TryFrom<ContractClass> for ContractDefinition: the program is carried
\* over as it is and the rest is re-encoded; a class that cannot be
\* re-encoded is an error.
ToContractDefinition(c) ==
    IF c.abi = "malformed"
    THEN [ok |-> FALSE, kind |-> "serde_json::Error"]
    ELSE Ok([definition_program |-> c.program, definition_abi |-> <<"json", c.abi>>])

\* Variant: a failed conversion is reported as an invalid contract class.
ConversionErrorInvalidClass(e) == Err("InvalidContractClass")

\* .map_err(|e| anyhow::anyhow!("Failed to convert contract definition: {}", e))?
ConversionError(e) == Internal("Failed to convert contract definition")

\* crate::sequencer::error::SequencerError: the tagged Starknet error
\* {code, message}, a transport failure, or a response that is no valid
\* Starknet error.
StarknetErrorCodes == {"InvalidProgram", "InvalidContractDefinition", "BlockNotFound"}
StarknetError(c) == [error |-> "StarknetError", code |-> c]
ReqwestError == [error |-> "ReqwestError", code |-> "-"]
InvalidStarknetErrorVariant == [error |-> "InvalidStarknetErrorVariant", code |-> "-"]
SequencerErrors ==
    {StarknetError(c) : c \in StarknetErrorCodes}
        \cup {ReqwestError, InvalidStarknetErrorVariant}

\* Variant: the guard on the code is dropped, every Starknet error is an
\* invalid contract class.
FromSequencerErrorAnyCode(e) ==
    IF e.error = "StarknetError" THEN Err("InvalidContractClass") ELSE Internal(e)

\* Variant: the match is on the code InvalidContractDefinition.
FromSequencerErrorOtherCode(e) ==
    IF e.error = "StarknetError" /\ e.code = "InvalidContractDefinition"
    THEN Err("InvalidContractClass")
    ELSE Internal(e)

\* impl From<SequencerError> for AddDeclareTransactionError
FromSequencerError(e) ==
    IF e.error = "StarknetError" /\ e.code = "InvalidProgram"
    THEN Err("InvalidContractClass")
    ELSE Internal(e)

\* The gateway's answers to a declare call: it never accepts a class whose
\* program does not decode, and any call can fail in any way.
TransactionHashes == {41, 42}
SequencerReplies(call) ==
    {[ok |-> FALSE, error |-> e] : e \in SequencerErrors}
        \cup IF call.contract_definition.definition_program = "program"
             THEN {Ok([code |-> "TRANSACTION_RECEIVED", transaction_hash |-> t,
                       class_hash |-> h]) :
                        t \in TransactionHashes, h \in ClassHashes}
             ELSE {}

\* Variant: the fee bound is not forwarded, the gateway gets the default fee.
SequencerArgumentsDefaultFee(t, converted) ==
    [version |-> t.version,
     max_fee |-> 0,
     signature |-> t.signature,
     nonce |-> t.nonce,
     contract_definition |-> converted,
     sender_address |-> t.sender_address,
     token |-> None]

\* The arguments of context.sequencer.add_declare_transaction(..): the
\* fields of the transaction, the converted definition, and None.
SequencerArguments(t, converted) ==
    [version |-> t.version,
     max_fee |-> t.max_fee,
     signature |-> t.signature,
     nonce |-> t.nonce,
     contract_definition |-> converted,
     sender_address |-> t.sender_address,
     token |-> None]

\* Ok(AddDeclareTransactionOutput { transaction_hash, class_hash })
Output(response) ==
    Ok([transaction_hash |-> response.transaction_hash,
        class_hash |-> response.class_hash])

\* Variant: a failed call is made again.
AfterReplyRetry(reply) == IF reply.ok THEN "done" ELSE "sequencer"

\* .await?: the handler returns after the gateway's reply, whether it is a
\* response or an error.
AfterReply(reply) == "done"

InitDeclare ==
    /\ dpc = "idle"
    /\ declare_input = None
    /\ contract_definition = None
    /\ sequencer_calls = <<>>
    /\ sequencer_reply = None
    /\ declare_result = None

\* The handler is entered and converts the contract class; a failed
\* conversion returns at once.
AddDeclareTransaction ==
    /\ serving = "add_declare_transaction"
    /\ dpc = "idle"
    /\ \E t \in BroadcastedDeclareTransactions :
            LET converted == ToContractDefinition(t.contract_class)
            IN  /\ declare_input' = Some(t)
                /\ IF converted.ok
                   THEN /\ contract_definition' = Some(converted.value)
                        /\ dpc' = "sequencer"
                        /\ declare_result' = declare_result
                   ELSE /\ contract_definition' = contract_definition
                        /\ dpc' = "done"
                        /\ declare_result' = Some(ConversionError(converted))
    /\ UNCHANGED <<serving, obsVars, envVars, getClassAtVars, sequencer_calls, sequencer_reply>>

\* context.sequencer.add_declare_transaction(version, max_fee, signature,
\*     nonce, contract_definition, sender_address, None)
SequencerCall ==
    /\ dpc = "sequencer"
    /\ sequencer_calls' =
            Append(sequencer_calls,
                   SequencerArguments(declare_input.value, contract_definition.value))
    /\ dpc' = "await"
    /\ UNCHANGED <<serving, obsVars, envVars, getClassAtVars, declare_input, contract_definition,
                   sequencer_reply, declare_result>>

\* .await?; Ok(AddDeclareTransactionOutput { .. })
SequencerResponse ==
    /\ dpc = "await"
    /\ \E reply \in SequencerReplies(sequencer_calls[Len(sequencer_calls)]) :
            /\ sequencer_reply' = Some(reply)
            /\ declare_result' =
                    Some(IF reply.ok THEN Output(reply.value)
                         ELSE FromSequencerError(reply.error))
            /\ dpc' = AfterReply(reply)
    /\ UNCHANGED <<serving, obsVars, envVars, getClassAtVars, declare_input, contract_definition,
                   sequencer_calls>>

(***************************************************************************)
(* The specification.                                                      *)
(***************************************************************************)
Init ==
    /\ serving \in Methods
    /\ InitEnv
    /\ InitGetClassAt
    /\ InitDeclare
    /\ InitObs

Next ==
    \/ CommitBlock
    \/ Reorg
    \/ StoreClass
    \/ RemoveClass
    \/ SetPending
    \/ GetClassAt
    \/ ReadPendingClassHash
    \/ SpawnBlocking
    \/ Connection
    \/ Transaction
    \/ BlockExists
    \/ ClassHash
    \/ ClassDefinition
    \/ FromDefinitionBytes
    \/ WorkerPanic
    \/ Join
    \/ AddDeclareTransaction
    \/ SequencerCall
    \/ SequencerResponse

Spec == Init /\ [][Next]_vars

\* The steps of get_class_at and of its worker.
GetClassAtRun ==
    \/ ReadPendingClassHash
    \/ SpawnBlocking
    \/ Connection
    \/ Transaction
    \/ BlockExists
    \/ ClassHash
    \/ ClassDefinition
    \/ FromDefinitionBytes
    \/ WorkerPanic
    \/ Join

GetClassAtStep ==
    \/ GetClassAt
    \/ GetClassAtRun

InitGetClassAtOnly == Init /\ serving = "get_class_at"

\* Identical requests repeated over a storage and an overlay that nobody
\* writes once the first request has arrived.
NextRepeat ==
    \/ QuietWriter
    \/ GetClassAtStep
    \/ Repeat

SpecRepeat == InitGetClassAtOnly /\ [][NextRepeat]_vars

\* A request that the caller may abandon.  The blocking pool runs a closure
\* it was handed until the closure returns or panics.
WorkerStep ==
    \/ Connection
    \/ Transaction
    \/ BlockExists
    \/ ClassHash
    \/ ClassDefinition
    \/ FromDefinitionBytes

NextCancel ==
    \/ QuietWriter
    \/ GetClassAtStep
    \/ Cancel

SpecCancel == InitGetClassAtOnly /\ [][NextCancel]_vars /\ WF_vars(WorkerStep)

\* A request served while the sync process promotes the pending block.  The
\* request arrives at a node that has committed no block or one block, with
\* at most one contract deployed and the class definitions stored or not,
\* and whose pending block has at most one deployment so far.
PromotionStorages ==
    {EmptyStorage}
        \cup {[head |-> 1, deployed |-> d, classes |-> c] :
                d \in {EmptyStorage.deployed}
                        \cup {[EmptyStorage.deployed EXCEPT ![a] = Deployed(0, h)] :
                                a \in Addresses, h \in ClassHashes},
                c \in {EmptyStorage.classes,
                       [h \in ClassHashes |-> Some(DefinitionBytes("legacy", h))]}}

PromotionOverlays ==
    {None, Some(None)}
        \cup {Some(Some([deployed_contracts |-> q])) :
                q \in SeqsUpTo(DeployedContracts, 1)}

InitPromotion ==
    /\ serving = "get_class_at"
    /\ storage \in PromotionStorages
    /\ pending_data \in PromotionOverlays
    /\ writes = 0
    /\ InitGetClassAt
    /\ InitDeclare
    /\ InitObs

PendingRequest ==
    /\ GetClassAt
    /\ input'.value.block_id = Pending

NextPromotion ==
    \/ PendingRequest
    \/ GetClassAtRun
    \/ PromoteCommit
    \/ PromoteReplace
    \/ GrowPending

SpecPromotion == InitPromotion /\ [][NextPromotion]_vars

(***************************************************************************)
(* Vocabulary of the properties.                                           *)
(***************************************************************************)
Done == tpc = "done"
Request == input.value
ByNumberOrHash == Request.block_id.kind \in {"Number", "Hash"}
Failed(r) == r.some /\ ~r.value.ok
IsErr(r, k) == r.some /\ ~r.value.ok /\ r.value.kind = k

\* What the closure's reads give when they are performed in one atomic step
\* on the storage s and none of them fails.
AtomicResult(s, id, address, overlay_hash) ==
    IF ~block_exists(s, id) THEN Err("BlockNotFound")
    ELSE LET h == IF overlay_hash.some THEN overlay_hash
                  ELSE contract_class_hash(s, id, address)
         IN  IF ~h.some THEN Err("ContractNotFound")
             ELSE LET d == class_definition(s, h.value)
                  IN  IF ~d.some THEN Internal("Class definition missing from database")
                      ELSE from_definition_bytes(d.value)

(***************************************************************************)
(* C1.  Every error get_class_at returns is BlockNotFound,                 *)
(* ContractNotFound or Internal, and every error add_declare_transaction   *)
(* returns is InvalidContractClass or Internal, whatever the input, the    *)
(* storage, the overlay, the worker's fate and the gateway's answer.       *)
(***************************************************************************)
C1_DeclaredErrorsOnly ==
    /\ Failed(result) =>
            result.value.kind \in {"BlockNotFound", "ContractNotFound", "Internal"}
    /\ Failed(returned) =>
            returned.value.kind \in {"BlockNotFound", "ContractNotFound", "Internal"}
    /\ Failed(declare_result) =>
            declare_result.value.kind \in {"InvalidContractClass", "Internal"}

\* add_declare_transaction has returned its one domain error.
C1_Witness ==
    /\ dpc = "done"
    /\ IsErr(declare_result, "InvalidContractClass")

(***************************************************************************)
(* C2.  As claimed: a request by number or hash whose target block is not  *)
(* in the storage its transaction reads returns BlockNotFound.             *)
(***************************************************************************)
TargetBlockMissing ==
    /\ Done
    /\ ByNumberOrHash
    /\ tx.open
    /\ ~block_exists(tx.snap, block_id.value)

C2_Original == TargetBlockMissing => result.value = Err("BlockNotFound")

(***************************************************************************)
(* C2, amended.  Such a request returns BlockNotFound unless block_exists  *)
(* itself fails or the worker terminates abnormally, and then it returns   *)
(* Internal; it never returns ContractNotFound and contract_class_hash is  *)
(* not called, also when the address is deployed at an existing block.  A  *)
(* request whose transaction could not be opened returns Internal.         *)
(***************************************************************************)
C2_BlockNotFoundFirst ==
    /\ TargetBlockMissing =>
            /\ fault = "none" => result.value = Err("BlockNotFound")
            /\ fault # "none" => /\ fault \in {"block_exists", "panic"}
                                 /\ IsErr(result, "Internal")
            /\ ~IsErr(result, "ContractNotFound")
            /\ lookups = 0
    /\ (Done /\ ByNumberOrHash /\ ~tx.open) =>
            /\ fault \in {"connection", "transaction", "panic"}
            /\ IsErr(result, "Internal")
            /\ lookups = 0

\* BlockNotFound for a missing block although the address is deployed at an
\* existing block.
C2_Witness ==
    /\ TargetBlockMissing
    /\ IsErr(result, "BlockNotFound")
    /\ tx.snap.deployed[Request.contract_address].some

(***************************************************************************)
(* C3.  A Pending request reads the overlay before the worker consults     *)
(* storage, and when the overlay has a pair for the address the closure    *)
(* never calls contract_class_hash: the class hash whose definition is     *)
(* fetched is the overlay's, whatever committed Latest state says.         *)
(***************************************************************************)
C3_OverlayFirst ==
    (tpc # "idle" /\ Request.block_id = Pending) =>
        /\ wpc # "none" => overlay_reads = 1
        /\ pending_class_hash.some =>
                /\ lookups = 0
                /\ class_hash.some => class_hash.value = pending_class_hash.value

\* The overlay's hash is the one used although committed Latest state maps
\* the address to another hash.
C3_Witness ==
    /\ tpc # "idle"
    /\ Request.block_id = Pending
    /\ pending_class_hash.some
    /\ class_hash = pending_class_hash
    /\ LET committed ==
                contract_class_hash(tx.snap, StorageLatest, Request.contract_address)
       IN  committed.some /\ committed # pending_class_hash

(***************************************************************************)
(* C4.  A request by Latest, hash or number never reads the overlay: no    *)
(* call of get_pending_class_hash is made, no overlay hash is held, and    *)
(* the result is the one determined by the request, the transaction's      *)
(* storage and the failure of a storage call alone, so that it is the same *)
(* under every overlay.                                                    *)
(***************************************************************************)
C4_OverlayOnlyForPending ==
    (tpc # "idle" /\ Request.block_id # Pending) =>
        /\ overlay_reads = 0
        /\ pending_class_hash = None
        /\ (Done /\ tx.open /\ fault = "none") =>
                result.value =
                    AtomicResult(tx.snap, block_id.value, Request.contract_address, None)
        /\ (Done /\ fault # "none") => IsErr(result, "Internal")

\* A Latest request has answered ContractNotFound while the overlay holds a
\* pair for its address.
C4_Witness ==
    /\ Done
    /\ Request.block_id = Latest
    /\ IsErr(result, "ContractNotFound")
    /\ get_pending_class_hash(pending_data, Request.contract_address).some

(***************************************************************************)
(* C5.  When a class hash was obtained, from the overlay or from storage,  *)
(* and storage holds no definition for it, the result is Internal and not  *)
(* ContractNotFound.  ContractNotFound is returned only when the block     *)
(* exists, the overlay gave no hash and storage has no class hash for the  *)
(* block and address.                                                      *)
(***************************************************************************)
C5_MissingDefinitionIsInternal ==
    Done =>
        /\ (class_hash.some /\ ~class_definition(tx.snap, class_hash.value).some) =>
                IsErr(result, "Internal")
        /\ IsErr(result, "ContractNotFound") =>
                /\ tx.open
                /\ block_exists(tx.snap, block_id.value)
                /\ ~pending_class_hash.some
                /\ ~contract_class_hash(tx.snap, block_id.value,
                                        Request.contract_address).some

\* The hash came from the overlay, its definition is missing and the
\* request answered Internal for that reason.
C5_Witness ==
    /\ Done
    /\ pending_class_hash.some
    /\ class_hash = pending_class_hash
    /\ ~class_definition(tx.snap, class_hash.value).some
    /\ result.value = Internal("Class definition missing from database")

(***************************************************************************)
(* C6.  The block-existence check, the class-hash lookup and the           *)
(* definition fetch of one request read the storage as it was when the     *)
(* transaction was opened: whatever the writer commits or removes between  *)
(* them, each read returns what that storage holds, and the result is the  *)
(* one the three reads give when performed atomically on it.               *)
(***************************************************************************)
C6_OneSnapshot ==
    tx.open =>
        /\ wpc \in {"class_hash", "class_definition", "from_definition_bytes"} =>
                block_exists(tx.snap, block_id.value)
        /\ (class_hash.some /\ ~pending_class_hash.some) =>
                class_hash =
                    contract_class_hash(tx.snap, block_id.value, Request.contract_address)
        /\ definition.some => definition = class_definition(tx.snap, class_hash.value)
        /\ (Done /\ fault = "none") =>
                result.value =
                    AtomicResult(tx.snap, block_id.value, Request.contract_address,
                                 pending_class_hash)

\* The definition fetch is about to run and the writer has, since the
\* transaction was opened, changed what storage holds for the class.
C6_Witness ==
    /\ wpc = "class_definition"
    /\ class_definition(storage, class_hash.value)
            # class_definition(tx.snap, class_hash.value)

(***************************************************************************)
(* C7.  A failure of the gateway call becomes InvalidContractClass exactly *)
(* when it is the Starknet error with code InvalidProgram; every other     *)
(* failure (another code, a transport failure, a malformed response)       *)
(* becomes Internal.                                                       *)
(***************************************************************************)
GatewayFailed == dpc = "done" /\ sequencer_reply.some /\ ~sequencer_reply.value.ok

C7_InvalidProgramOnly ==
    GatewayFailed =>
        /\ IsErr(declare_result, "InvalidContractClass")
                <=> sequencer_reply.value.error = StarknetError("InvalidProgram")
        /\ sequencer_reply.value.error # StarknetError("InvalidProgram")
                => IsErr(declare_result, "Internal")

\* A transport failure has been answered with Internal.
C7_Witness ==
    /\ GatewayFailed
    /\ sequencer_reply.value.error = ReqwestError
    /\ IsErr(declare_result, "Internal")

(***************************************************************************)
(* C8.  A contract class that cannot be converted into the gateway's       *)
(* contract definition yields Internal, never InvalidContractClass;        *)
(* InvalidContractClass is only ever the answer to a rejection by the      *)
(* gateway.                                                                *)
(***************************************************************************)
ConversionFailed == dpc = "done" /\ ~contract_definition.some

C8_ConversionFailureIsInternal ==
    /\ ConversionFailed =>
            declare_result.value = Internal("Failed to convert contract definition")
    /\ IsErr(declare_result, "InvalidContractClass") =>
            /\ contract_definition.some
            /\ sequencer_reply.some
            /\ ~sequencer_reply.value.ok

\* The class that failed to convert also has an empty program.
C8_Witness ==
    /\ ConversionFailed
    /\ declare_input.value.contract_class.program = ""
    /\ IsErr(declare_result, "Internal")

(***************************************************************************)
(* C9.  As claimed: a declare transaction whose class has an empty or      *)
(* invalid program returns InvalidContractClass.                           *)
(***************************************************************************)
InvalidProgramDeclared ==
    /\ dpc = "done"
    /\ declare_input.value.contract_class.program \in {"", "not a program"}

C9_Original == InvalidProgramDeclared => IsErr(declare_result, "InvalidContractClass")

(***************************************************************************)
(* C9, amended.  Such a transaction returns InvalidContractClass when the  *)
(* class converts and the gateway rejects it with the code InvalidProgram; *)
(* when the conversion fails or the gateway call fails in another way it   *)
(* returns Internal.  It does not succeed.                                 *)
(***************************************************************************)
C9_InvalidProgramRejected ==
    InvalidProgramDeclared =>
        /\ ~declare_result.value.ok
        /\ IF /\ contract_definition.some
              /\ sequencer_reply.value.error = StarknetError("InvalidProgram")
           THEN IsErr(declare_result, "InvalidContractClass")
           ELSE IsErr(declare_result, "Internal")

\* The empty program was forwarded to the gateway, rejected with the code
\* InvalidProgram, and answered with InvalidContractClass.
C9_Witness ==
    /\ InvalidProgramDeclared
    /\ declare_input.value.contract_class.program = ""
    /\ Len(sequencer_calls) = 1
    /\ sequencer_reply.value.error = StarknetError("InvalidProgram")
    /\ IsErr(declare_result, "InvalidContractClass")

(***************************************************************************)
(* C10.  A request by number or hash at an existing block B, with no       *)
(* worker or storage failure: when the address was deployed at a block no  *)
(* later than B, storage maps (B, address) to its class hash, and the      *)
(* request succeeds with that class if its definition is stored and        *)
(* parses; when the address was deployed after B or never, the request     *)
(* returns ContractNotFound.                                               *)
(***************************************************************************)
\* The number of the block the request names.
RequestedNumber ==
    IF Request.block_id.kind = "Number" THEN Request.block_id.value
    ELSE CHOOSE n \in 0..MaxBlocks : BlockHashOf(n) = Request.block_id.value

AtExistingBlock ==
    /\ Done
    /\ ByNumberOrHash
    /\ fault = "none"
    /\ tx.open
    /\ RequestedNumber < tx.snap.head

C10_ClassAsOfBlock ==
    AtExistingBlock =>
        LET d == tx.snap.deployed[Request.contract_address]
            deployed_by_then == d.some /\ d.block <= RequestedNumber
        IN  /\ deployed_by_then =>
                    LET bytes == tx.snap.classes[d.class_hash]
                    IN  /\ class_hash = Some(d.class_hash)
                        /\ (bytes.some /\ bytes.value.format \in Formats) =>
                                result.value =
                                    Ok([generation |-> bytes.value.format,
                                        class |-> d.class_hash])
            /\ ~deployed_by_then => result.value = Err("ContractNotFound")

\* A request at the block after the contract's deployment has succeeded.
C10_Witness ==
    /\ AtExistingBlock
    /\ result.value.ok
    /\ tx.snap.deployed[Request.contract_address].block <= RequestedNumber

(***************************************************************************)
(* C11.  When the conversion and the gateway call both succeed, the        *)
(* handler returns exactly the transaction hash and class hash of the      *)
(* gateway's response, and the gateway was called with the request's       *)
(* version, max_fee, signature, nonce and sender_address unchanged, the    *)
(* converted contract definition, and None as compiled-class hash.         *)
(***************************************************************************)
DeclareSucceeded == dpc = "done" /\ sequencer_reply.some /\ sequencer_reply.value.ok

C11_ForwardedAndReturned ==
    DeclareSucceeded =>
        LET t == declare_input.value
            call == sequencer_calls[Len(sequencer_calls)]
            response == sequencer_reply.value.value
        IN  /\ declare_result.value.ok
            /\ DOMAIN declare_result.value.value = {"transaction_hash", "class_hash"}
            /\ declare_result.value.value.transaction_hash = response.transaction_hash
            /\ declare_result.value.value.class_hash = response.class_hash
            /\ call.version = t.version
            /\ call.max_fee = t.max_fee
            /\ call.signature = t.signature
            /\ call.nonce = t.nonce
            /\ call.sender_address = t.sender_address
            /\ Ok(call.contract_definition) = ToContractDefinition(t.contract_class)
            /\ call.token = None

\* A transaction with a fee, a signature and a nonce was accepted.
C11_Witness ==
    /\ DeclareSucceeded
    /\ declare_input.value.max_fee = 1
    /\ declare_input.value.nonce = 1
    /\ declare_input.value.signature = <<7>>
    /\ declare_result.value.ok

(***************************************************************************)
(* C13.  A worker that terminates abnormally makes the request complete    *)
(* with Internal, never with a domain error or a class; a worker that      *)
(* returns makes the request complete with exactly the value it returned.  *)
(***************************************************************************)
C13_JoinErrorIsInternal ==
    Done =>
        /\ wpc \in {"panicked", "returned"}
        /\ wpc = "panicked" =>
                /\ IsErr(result, "Internal")
                /\ result.value.context = "Reading class from database"
                /\ ~returned.some
        /\ wpc = "returned" => result = returned

\* The worker panicked after it had found the class hash, and the request
\* completed.
C13_Witness ==
    /\ Done
    /\ wpc = "panicked"
    /\ class_hash.some
    /\ IsErr(result, "Internal")

(***************************************************************************)
(* C15.  get_pending_class_hash gives none when there is no pending data   *)
(* or no state update, and otherwise the class hash of the first pair of   *)
(* deployed_contracts, in insertion order, with the requested address, or  *)
(* none when no pair has it; never the hash of a pair with another         *)
(* address.                                                                *)
(***************************************************************************)
RECURSIVE FirstMatch(_, _)
FirstMatch(q, address) ==
    IF q = <<>> THEN None
    ELSE IF Head(q).address = address THEN Some(Head(q).class_hash)
         ELSE FirstMatch(Tail(q), address)

PendingRead ==
    /\ tpc = "pending_class_hash"
    /\ tpc' = "spawn_blocking"
    /\ input.value.block_id = Pending

C15_FirstMatchWins ==
    [][PendingRead =>
            LET address == input.value.contract_address
            IN  /\ (~pending_data.some \/ ~pending_data.value.some)
                        => pending_class_hash' = None
                /\ (pending_data.some /\ pending_data.value.some) =>
                        LET q == pending_data.value.value.deployed_contracts
                        IN  /\ pending_class_hash' = FirstMatch(q, address)
                            /\ pending_class_hash'.some =>
                                    \E i \in 1..Len(q) :
                                        /\ q[i].address = address
                                        /\ q[i].class_hash = pending_class_hash'.value
                                        /\ \A j \in 1..(i - 1) : q[j].address # address
                            /\ ~pending_class_hash'.some =>
                                    \A i \in 1..Len(q) : q[i].address # address]_vars

\* The overlay holds the requested address twice, with different class
\* hashes, and the read gave the hash of the first pair.
C15_Witness ==
    /\ tpc = "spawn_blocking"
    /\ input.value.block_id = Pending
    /\ pending_data.some /\ pending_data.value.some
    /\ LET q == pending_data.value.value.deployed_contracts
       IN  /\ Len(q) >= 2
           /\ q[1].address = input.value.contract_address
           /\ q[2].address = input.value.contract_address
           /\ q[1].class_hash # q[2].class_hash
           /\ pending_class_hash = Some(q[1].class_hash)

(***************************************************************************)
(* C17.  The mapping of the block id is total: Pending maps to the storage *)
(* reference Latest, and Latest, Hash(h) and Number(n) to the reference of *)
(* the same kind and value; the conversion under expect() is never given   *)
(* Pending, so the handler never panics there.                             *)
(***************************************************************************)
C17_BlockIdMappingTotal ==
    /\ tpc # "panicked"
    /\ input.some =>
            /\ block_id.some
            /\ LET id == input.value.block_id
                   mapped == block_id.value
               IN  /\ id.kind \in {"Pending", "Latest"} => mapped = StorageLatest
                   /\ id.kind = "Hash" => mapped = StorageHash(id.value)
                   /\ id.kind = "Number" => mapped = StorageNumber(id.value)

\* A Pending request has been mapped and is about to read the overlay.
C17_Witness ==
    /\ tpc = "pending_class_hash"
    /\ input.value.block_id = Pending
    /\ block_id = Some(StorageLatest)

(***************************************************************************)
(* C20.  The gateway is called at most once per request and only after the *)
(* conversion of the contract class has succeeded: a failed conversion     *)
(* means no call, and a failure of the gateway is returned to the caller   *)
(* without another call.                                                   *)
(***************************************************************************)
C20_AtMostOneCall ==
    /\ Len(sequencer_calls) <= 1
    /\ sequencer_calls # <<>> =>
            /\ contract_definition.some
            /\ ToContractDefinition(declare_input.value.contract_class).ok
            /\ dpc \in {"await", "done"}
    /\ ConversionFailed => sequencer_calls = <<>> /\ ~sequencer_reply.some
    /\ sequencer_reply.some /\ ~sequencer_reply.value.ok =>
            /\ dpc = "done"
            /\ declare_result = Some(FromSequencerError(sequencer_reply.value.error))

\* The gateway refused the one call with an error other than an invalid
\* program, and the handler has returned.
C20_Witness ==
    /\ GatewayFailed
    /\ Len(sequencer_calls) = 1
    /\ sequencer_reply.value.error = StarknetError("BlockNotFound")
    /\ IsErr(declare_result, "Internal")

(***************************************************************************)
(* C16.  As claimed: a Pending request whose overlay supplied a class hash *)
(* returns BlockNotFound when committed storage contains no block.         *)
(***************************************************************************)
OverlayHashNoBlock ==
    /\ Done
    /\ Request.block_id = Pending
    /\ pending_class_hash.some
    /\ tx.open
    /\ tx.snap.head = 0

C16_Original == OverlayHashNoBlock => result.value = Err("BlockNotFound")

(***************************************************************************)
(* C16, amended.  The existence of committed Latest is checked also when   *)
(* the overlay supplied a class hash: with no committed block the request  *)
(* returns BlockNotFound, unless block_exists itself fails or the worker   *)
(* terminates abnormally, and then Internal; it never returns a class or   *)
(* ContractNotFound, and no class definition is fetched.                   *)
(***************************************************************************)
C16_BlockCheckedDespiteOverlay ==
    OverlayHashNoBlock =>
        /\ fault = "none" => result.value = Err("BlockNotFound")
        /\ fault # "none" => /\ fault \in {"block_exists", "panic"}
                             /\ IsErr(result, "Internal")
        /\ ~class_hash.some
        /\ ~definition.some

\* BlockNotFound although the overlay has a pair for the address and the
\* class of that pair is stored.
C16_Witness ==
    /\ OverlayHashNoBlock
    /\ IsErr(result, "BlockNotFound")
    /\ tx.snap.classes[pending_class_hash.value].some

(***************************************************************************)
(* C18.  A Pending request for which the overlay yields no class hash      *)
(* returns what a Latest request for the same address returns on the same  *)
(* committed storage: the same class, BlockNotFound, ContractNotFound or   *)
(* Internal.  LatestOutcome is that result as a function of the storage    *)
(* the transaction reads, the address and the storage call that failed,    *)
(* if one did; both kinds of request are held against it.                  *)
(***************************************************************************)
LatestOutcome(t, address, f) ==
    CASE f = "none" -> AtomicResult(t.snap, StorageLatest, address, None)
      [] f = "connection" -> Internal("Opening database connection")
      [] f = "transaction" -> Internal("Creating database transaction")
      [] f = "block_exists" -> Internal("storage error")
      [] f = "contract_class_hash" -> Internal("Querying contract's class hash")
      [] f = "class_definition" -> Internal("Fetching class definition")
      [] f = "panic" -> Internal("Reading class from database")

PendingWithoutOverlayHash ==
    /\ Done
    /\ Request.block_id = Pending
    /\ ~pending_class_hash.some

C18_PendingFallsBackToLatest ==
    /\ (Done /\ Request.block_id = Latest) =>
            result.value = LatestOutcome(tx, Request.contract_address, fault)
    /\ PendingWithoutOverlayHash =>
            result.value = LatestOutcome(tx, Request.contract_address, fault)

\* With two committed blocks and the address deployed in the second, a
\* Pending request without an overlay pair returned what the reads at Latest
\* give.
C18_Witness ==
    /\ PendingWithoutOverlayHash
    /\ overlay_reads = 1
    /\ tx.open
    /\ tx.snap.head = 2
    /\ tx.snap.deployed[Request.contract_address].some
    /\ tx.snap.deployed[Request.contract_address].block = 1
    /\ result.value = LatestOutcome(tx, Request.contract_address, "none")

(***************************************************************************)
(* C12.  As claimed: with storage and overlay unchanged and no crash of    *)
(* the worker, a repeated identical request returns the same class or the  *)
(* same error kind as the request before it.                               *)
(***************************************************************************)
SameOutcome(r1, r2) ==
    IF r1.ok /\ r2.ok THEN r1 = r2
    ELSE ~r1.ok /\ ~r2.ok /\ r1.kind = r2.kind

Repeated == Done /\ previous.some

C12_Original ==
    (Repeated /\ previous.value.fault # "panic" /\ fault # "panic") =>
        SameOutcome(result.value, previous.value.result)

(***************************************************************************)
(* C12, amended.  With storage and overlay unchanged, no crash of the      *)
(* worker and no failing storage call in either request, a repeated        *)
(* identical request returns exactly the result of the request before it;  *)
(* the requests themselves leave the overlay as it was.                    *)
(***************************************************************************)
C12_Idempotent ==
    (Repeated /\ previous.value.fault = "none" /\ fault = "none") =>
        /\ result.value = previous.value.result
        /\ SameOutcome(result.value, previous.value.result)

\* A Pending request answered from the overlay's pair a second time, with
\* the same result as the first time.
C12_Witness ==
    /\ Repeated
    /\ previous.value.fault = "none"
    /\ fault = "none"
    /\ Request.block_id = Pending
    /\ pending_class_hash.some
    /\ tx.open /\ tx.snap.head > 0
    /\ result.value = previous.value.result

(***************************************************************************)
(* C14.  A request cancelled after its closure was handed to the blocking  *)
(* pool gets no response, and the closure is not stopped: cancelling       *)
(* leaves the worker as it is, and the worker goes on until the closure    *)
(* has returned (or panicked by itself), its value never becoming a        *)
(* result.  A request cancelled before the closure was spawned never       *)
(* starts a worker and opens no transaction.                               *)
(***************************************************************************)
Cancelled == tpc = "cancelled"
WorkerFinished == wpc \in {"returned", "panicked"}

C14_CancelledWorkRuns ==
    /\ [](Cancelled => ~result.some)
    /\ [][Cancelled => (Cancelled' /\ result' = result)]_vars
    /\ [][(~Cancelled /\ Cancelled') => UNCHANGED workerVars]_vars
    /\ [][(Cancelled /\ wpc = "none") => (wpc' = "none" /\ ~tx'.open)]_vars
    /\ [](Cancelled /\ wpc = "none" => ~tx.open /\ lookups = 0)
    /\ (Cancelled /\ wpc # "none") ~> (Cancelled /\ WorkerFinished)

\* The request was cancelled, the closure has read storage and returned a
\* value, and there is no response.
C14_Witness ==
    /\ Cancelled
    /\ wpc = "returned"
    /\ tx.open
    /\ returned.some /\ returned.value.ok
    /\ ~result.some

(***************************************************************************)
(* C19.  While the sync process promotes the pending block, committing it  *)
(* before it replaces the overlay, a Pending request for an address that   *)
(* is in the overlay or deployed at committed Latest at every instant of   *)
(* the request never returns ContractNotFound, and the class hash it       *)
(* resolves is one the overlay or committed Latest gave the address at     *)
(* some instant of the request.                                            *)
(***************************************************************************)
CoveredThroughout ==
    /\ Request.contract_address \notin uncovered
    /\ CoveredNow(storage, pending_data, Request.contract_address)

MappedDuring ==
    mappings[Request.contract_address]
        \cup MappedNow(storage, pending_data, Request.contract_address)

C19_PromotionNeverLosesContract ==
    (Done /\ Request.block_id = Pending) =>
        /\ CoveredThroughout => ~IsErr(result, "ContractNotFound")
        /\ CoveredThroughout => ~IsErr(returned, "ContractNotFound")
        /\ class_hash.some => class_hash.value \in MappedDuring

\* The overlay's pair was read, then the pending block was committed and
\* the overlay replaced by one without the address, and the request was
\* answered with the overlay's hash.
C19_Witness ==
    /\ Done
    /\ Request.block_id = Pending
    /\ CoveredThroughout
    /\ pending_class_hash.some
    /\ ~find_map(OverlayPairs(pending_data), Request.contract_address).some
    /\ storage.deployed[Request.contract_address].some
    /\ class_hash = pending_class_hash
    /\ ~IsErr(result, "ContractNotFound")

====
